---- MODULE Spec2Model ----
(***************************************************************************)
(* Ward background service worker: per-tab analysis orchestration, result  *)
(* cache, tracker registry and mode controller (src/extension/             *)
(* background.js).                                                         *)
(*                                                                         *)
(* Scheduling: one JavaScript event loop.  Every action below is one       *)
(* macrotask together with the promise continuations (microtasks) it       *)
(* triggers; an action boundary is placed at every real suspension point   *)
(* (chrome.storage, chrome.tabs.get, backend call, timer).                 *)
(* Strings are sequences of one-character strings, so that concatenation,  *)
(* substring, startsWith and includes are computed as JavaScript does.     *)
(***************************************************************************)
EXTENDS Integers, Sequences, FiniteSets

\* ------------------------------------------------------------------ bounds
MaxEvents == 3     \* external events per behaviour: messages, navigations, tab closes

\* ------------------------------------------------------- program constants
PREFIX_LEN == 500  \* content.substring(0, 500)

\* ----------------------------------------------------------------- strings
CHROME == <<"c","h","r","o","m","e",":","/","/">>
CHROME_EXTENSION == <<"c","h","r","o","m","e","-","e","x","t","e","n","s","i","o","n",":","/","/">>
ABOUT == <<"a","b","o","u","t",":">>
EDGE == <<"e","d","g","e",":","/","/">>
SETTINGS_HTML == <<"/","s","e","t","t","i","n","g","s",".","h","t","m","l">>
POPUP_HTML == <<"/","p","o","p","u","p",".","h","t","m","l">>
TAB == <<"t","a","b">>
COLON == <<":">>

startsWith(s, p) == Len(s) >= Len(p) /\ SubSeq(s, 1, Len(p)) = p

includes(s, p) == \E i \in 1..(Len(s) - Len(p) + 1) : SubSeq(s, i, i + Len(p) - 1) = p

substring(s, from, to) == SubSeq(s, from + 1, IF to < Len(s) THEN to ELSE Len(s))

Digit(d) == CASE d = 0 -> "0" [] d = 1 -> "1" [] d = 2 -> "2" [] d = 3 -> "3" [] d = 4 -> "4"
              [] d = 5 -> "5" [] d = 6 -> "6" [] d = 7 -> "7" [] d = 8 -> "8" [] d = 9 -> "9"

\* template literal ${tabId}
RECURSIVE NumberToString(_)
NumberToString(n) == IF n < 10 THEN <<Digit(n)>> ELSE NumberToString(n \div 10) \o <<Digit(n % 10)>>

ModeString(m) == CASE m = "local" -> <<"l","o","c","a","l">>
                   [] m = "cloud" -> <<"c","l","o","u","d">>

\* ------------------------------------------------------------ input domains
Tabs == {1, 10}
Modes == {"local", "cloud"}

URL_A == <<"h","t","t","p",":","/","/","a","/">>          \* http://a/
URL_AX == URL_A \o <<":","x">>                             \* http://a/:x
URL_EXT == CHROME_EXTENSION \o <<"i">> \o POPUP_HTML       \* chrome-extension://i/popup.html
UNKNOWN == <<"u","n","k","n","o","w","n">>                 \* sender.tab?.url || 'unknown'
Urls == {URL_A, URL_AX, URL_EXT}

CONTENT_XY == <<"x",":","y">>
CONTENT_Y == <<"y">>
Contents == {CONTENT_XY, CONTENT_Y}

\* analyzeContent messages the content script sends: {content: '', skipped: true}
\* or {content: enhancedContent}
Messages == {[content |-> <<>>, skipped |-> TRUE]} \cup {[content |-> c, skipped |-> FALSE] : c \in Contents}

\* new URL(url).hostname for the URLs above
Hostname(url) == CASE url = URL_A -> <<"a">>
                   [] url = URL_AX -> <<"a">>
                   [] url = URL_EXT -> <<"i">>

\* outcomes of the opaque collaborators
BackendOutcomes == {"SAFE", "THREAT", "throw"}
CloudInitOutcomes == {"readily", "configure-required", "throw"}
LocalInitOutcomes == {"readily", "no", "throw"}

VARIABLES
  activeMode,            \* let activeMode
  currentSessions,       \* let currentSessions
  isAiAvailable,         \* let isAiAvailable
  aiAvailabilityStatus,  \* let aiAvailabilityStatus
  DETECTION_CACHE,       \* Map: cache key -> result
  ACTIVE_ANALYSES,       \* Map tabId -> tracker, as the set of trackers it holds
  req,                   \* analyzeContent messages: handler position, tracker, closure
  nextReq,
  events,                \* external events so far
  sw,                    \* initializeAI / switchMode activations (0 = startup)
  nextSw,
  tabOpen, tabUrl,       \* chrome.tabs
  storedMode,            \* chrome.storage.local activeMode
  ignoreRules,           \* chrome.storage.local ignoreRules
  detection,             \* chrome.storage.local detection_<tabId>
  kd,                    \* key derivation probe (SpecKey)
  ip,                    \* shouldIgnoreUrl probe (SpecIgnore)
  clearResp,             \* clearTabCache messages answered so far and the last answer
  cs,                    \* one content-script instance: its globals and its analyzePage calls
  rw                     \* addIgnoreRule / removeIgnoreRule calls of the popup and the settings page

vars == <<activeMode, currentSessions, isAiAvailable, aiAvailabilityStatus,
          DETECTION_CACHE, ACTIVE_ANALYSES, req, nextReq, sw, nextSw,
          tabOpen, tabUrl, events, storedMode, ignoreRules, detection, kd, ip, clearResp, cs, rw>>

coreVars == <<activeMode, currentSessions, isAiAvailable, aiAvailabilityStatus,
              DETECTION_CACHE, ACTIVE_ANALYSES, req, nextReq, sw, nextSw,
              tabOpen, tabUrl, events, storedMode, ignoreRules, detection, clearResp>>

\* ------------------------------------------------------------------ values
NoResult == [judgment |-> "NONE", isMalicious |-> FALSE, method |-> "none", mode |-> "none", contentLength |-> -1,
             dispatched |-> "none"]

NullSessions == [mode |-> "null", availability |-> "null", ready |-> FALSE]

NoDetection == [present |-> FALSE, result |-> NoResult, url |-> <<>>]

NoRequest == [pc |-> "none", tabId |-> 0, url |-> <<>>, content |-> <<>>, cacheKey |-> <<>>,
              cancelled |-> FALSE, timerArmed |-> FALSE,
              timedOut |-> FALSE, cancelledBy |-> "none", navigatedAway |-> FALSE, navStarted |-> FALSE,
              skipped |-> FALSE, acks |-> 0, path |-> "none", dmode |-> "none", invoked |-> {}, settled |-> "none",
              result |-> NoResult,
              responses |-> <<>>, nCache |-> 0, nStore |-> 0, nBadge |-> 0]

NoSwitch == [pc |-> "none", newMode |-> "none", initMode |-> "none", outcome |-> "none", ack |-> "none"]

\* An AnalysisResult; contentLength -1 stands for a result without that field.
Result(j, mal, meth, m, len, d) ==
  [judgment |-> j, isMalicious |-> mal, method |-> meth, mode |-> m, contentLength |-> len, dispatched |-> d]

\* ------------------------------------------------------------- getCacheKey
\* Variant: the key leaves out the active mode.
getCacheKeyIn_NoMode(mode, url, content, tabId) ==
  TAB \o NumberToString(tabId) \o COLON \o url \o COLON \o substring(content, 0, PREFIX_LEN)

getCacheKeyIn(mode, url, content, tabId) ==
  TAB \o NumberToString(tabId) \o COLON \o url \o COLON \o substring(content, 0, PREFIX_LEN)
      \o COLON \o ModeString(mode)

getCacheKey(url, content, tabId) == getCacheKeyIn(activeMode, url, content, tabId)

\* Map operations on DETECTION_CACHE
CacheSet(cache, key, value) ==
  [k \in (DOMAIN cache) \cup {key} |-> IF k = key THEN value ELSE cache[k]]

CacheClear == [k \in {} |-> NoResult]

\* Variant: the prefix tested is `tab${tabId}` without the colon.
CacheDeleteTab_NoColon(cache, tabId) ==
  [k \in {x \in DOMAIN cache : ~startsWith(x, TAB \o NumberToString(tabId))} |-> cache[k]]

CacheDeleteTab(cache, tabId) ==
  [k \in {x \in DOMAIN cache : ~startsWith(x, TAB \o NumberToString(tabId) \o COLON)} |-> cache[k]]

\* Map operations on ACTIVE_ANALYSES
TrackersOf(tabId) == {a \in ACTIVE_ANALYSES : req[a].tabId = tabId}

MapDelete(map, tabId) == {a \in map : req[a].tabId # tabId}

MapSet(map, tabId, a) == MapDelete(map, tabId) \cup {a}

\* --------------------------------------------------------- shouldIgnoreUrl
isExtensionPage(url) ==
  includes(url, CHROME_EXTENSION) /\ (includes(url, SETTINGS_HTML) \/ includes(url, POPUP_HTML))

\* new URL(url) throws TypeError for a string without a scheme.
canParse(url) == \E i \in 2..Len(url) : url[i] = ":"

\* The for loop over ignoreRules; a throw of new URL(url) leaves the loop for
\* the catch block of shouldIgnoreUrl, which returns false.
\* Variant: the catch block answers true.
RECURSIVE matchRules_FailClosed(_, _, _)
matchRules_FailClosed(url, rules, i) ==
  IF i > Len(rules) THEN FALSE
  ELSE IF rules[i].type = "url" /\ url = rules[i].pattern THEN TRUE
  ELSE IF rules[i].type = "domain" /\ ~canParse(url) THEN TRUE
  ELSE IF rules[i].type = "domain" /\ Hostname(url) = rules[i].pattern THEN TRUE
  ELSE matchRules_FailClosed(url, rules, i + 1)

RECURSIVE matchRules(_, _, _)
matchRules(url, rules, i) ==
  IF i > Len(rules) THEN FALSE
  ELSE IF rules[i].type = "url" /\ url = rules[i].pattern THEN TRUE
  ELSE IF rules[i].type = "domain" /\ ~canParse(url) THEN FALSE
  ELSE IF rules[i].type = "domain" /\ Hostname(url) = rules[i].pattern THEN TRUE
  ELSE matchRules(url, rules, i + 1)

\* shouldIgnoreUrl with the settlement of chrome.storage.local.get(['ignoreRules'])
\* as `got`: ok = FALSE is a rejection, which the catch block turns into false.
shouldIgnoreUrlGet(url, got) ==
  IF isExtensionPage(url) THEN TRUE
  ELSE IF ~got.ok THEN FALSE
  ELSE matchRules(url, got.ignoreRules, 1)

shouldIgnoreUrl(url, rules) == shouldIgnoreUrlGet(url, [ok |-> TRUE, ignoreRules |-> rules])

\* --------------------------------------------------------- onUpdated guard
isSystemUrl(url) ==
  \/ url = <<>>
  \/ startsWith(url, CHROME)
  \/ startsWith(url, CHROME_EXTENSION)
  \/ startsWith(url, ABOUT)
  \/ startsWith(url, EDGE)

\* ---------------------------------------------------------- analyzeContent
\* The synchronous prefix of analyzeContent: either it returns a result
\* without suspending (fail fast, configuration error, TypeError on a null
\* currentSessions caught by its own catch) or it awaits a backend.
\* `backends` is the set of backends the call invokes (analyzeCloud / analyzeLocal).
\* Variant: the two backends are exchanged.
analyzeContentSync_Swapped(content) ==
  IF ~isAiAvailable /\ aiAvailabilityStatus # "configure-required"
    THEN [sync |-> TRUE, backends |-> {}, result |-> Result("ERROR", FALSE, "error", activeMode, Len(content), activeMode)]
  ELSE IF activeMode = "cloud" /\ aiAvailabilityStatus = "configure-required"
    THEN [sync |-> TRUE, backends |-> {}, result |-> Result("CONFIGURATION_ERROR", FALSE, "error", "cloud", Len(content), activeMode)]
  ELSE IF activeMode = "cloud"
    THEN [sync |-> FALSE, backends |-> {"local"}, result |-> NoResult]
  ELSE IF currentSessions = NullSessions
    THEN [sync |-> TRUE, backends |-> {}, result |-> Result("ERROR", FALSE, "error", activeMode, Len(content), activeMode)]
  ELSE [sync |-> FALSE, backends |-> {"cloud"}, result |-> NoResult]

\* Variant: no availability check before dispatch.
analyzeContentSync_NoFailFast(content) ==
  IF activeMode = "cloud" /\ aiAvailabilityStatus = "configure-required"
    THEN [sync |-> TRUE, backends |-> {}, result |-> Result("CONFIGURATION_ERROR", FALSE, "error", "cloud", Len(content), activeMode)]
  ELSE IF activeMode = "cloud"
    THEN [sync |-> FALSE, backends |-> {"cloud"}, result |-> NoResult]
  ELSE IF currentSessions = NullSessions
    THEN [sync |-> TRUE, backends |-> {}, result |-> Result("ERROR", FALSE, "error", activeMode, Len(content), activeMode)]
  ELSE [sync |-> FALSE, backends |-> {"local"}, result |-> NoResult]

analyzeContentSync(content) ==
  IF ~isAiAvailable /\ aiAvailabilityStatus # "configure-required"
    THEN [sync |-> TRUE, backends |-> {}, result |-> Result("ERROR", FALSE, "error", activeMode, Len(content), activeMode)]
  ELSE IF activeMode = "cloud" /\ aiAvailabilityStatus = "configure-required"
    THEN [sync |-> TRUE, backends |-> {}, result |-> Result("CONFIGURATION_ERROR", FALSE, "error", "cloud", Len(content), activeMode)]
  ELSE IF activeMode = "cloud"
    THEN [sync |-> FALSE, backends |-> {"cloud"}, result |-> NoResult]
  ELSE IF currentSessions = NullSessions
    THEN [sync |-> TRUE, backends |-> {}, result |-> Result("ERROR", FALSE, "error", activeMode, Len(content), activeMode)]
  ELSE [sync |-> FALSE, backends |-> {"local"}, result |-> NoResult]

\* What the awaited backend call hands back to analyzeContent's caller.
\* Variant: analyzeContent has no catch block; NoResult stands for a rejected
\* promise, which carries no result.
analyzeContentAsync_Rethrow(r, out) ==
  IF out = "throw" THEN NoResult
  ELSE Result(out, out = "THREAT", "ai", req[r].dmode, Len(req[r].content), req[r].dmode)

analyzeContentAsync(r, out) ==
  IF out = "throw" THEN Result("ERROR", FALSE, "error", activeMode, Len(req[r].content), req[r].dmode)
  ELSE Result(out, out = "THREAT", "ai", req[r].dmode, Len(req[r].content), req[r].dmode)

TimeoutResult(content) ==
  Result("Unable to scan. Proceed with caution.", FALSE, "timeout", activeMode, Len(content), "none")

\* ------------------------------------------------- onMessage analyzeContent
\* The handler of a message has run to its end: its closure is dropped.
Finish(q) == [q EXCEPT !.pc = "done", !.url = <<>>, !.content = <<>>, !.cacheKey = <<>>, !.acks = 0,
                       !.dmode = "none", !.invoked = {}, !.settled = "none", !.result = NoResult]

Respond(q, result) == [Finish(q) EXCEPT !.responses = Append(@, result)]

\* Variant: the SKIPPED result is put into the cache.
SkippedBranch_Cached(r, q) ==
  LET skipResult == Result("SKIPPED", FALSE, "skipped", activeMode, 0, "none") IN
  /\ detection' = [detection EXCEPT ![q.tabId] = [present |-> TRUE, result |-> skipResult, url |-> q.url]]
  /\ req' = [req EXCEPT ![r] = [Respond(q, skipResult) EXCEPT !.path = "skipped", !.nStore = @ + 1, !.nBadge = @ + 1]]
  /\ DETECTION_CACHE' = CacheSet(DETECTION_CACHE, getCacheKey(q.url, q.content, q.tabId), skipResult)
  /\ UNCHANGED ACTIVE_ANALYSES

SkippedBranch(r, q) ==
  LET skipResult == Result("SKIPPED", FALSE, "skipped", activeMode, 0, "none") IN
  /\ detection' = [detection EXCEPT ![q.tabId] = [present |-> TRUE, result |-> skipResult, url |-> q.url]]
  /\ req' = [req EXCEPT ![r] = [Respond(q, skipResult) EXCEPT !.path = "skipped", !.nStore = @ + 1, !.nBadge = @ + 1]]
  /\ UNCHANGED <<DETECTION_CACHE, ACTIVE_ANALYSES>>

\* Variant: the tracker of the tab is cancelled and dropped from the registry.
IgnoredBranch_Cancels(r, q) ==
  LET ignoreResult == Result("IGNORED", FALSE, "ignored", activeMode, Len(q.content), "none") IN
  /\ detection' = [detection EXCEPT ![q.tabId] = [present |-> TRUE, result |-> ignoreResult, url |-> q.url]]
  /\ req' = [a \in DOMAIN req |->
               IF a = r THEN [Respond(q, ignoreResult) EXCEPT !.path = "ignored", !.nStore = @ + 1, !.nBadge = @ + 1]
               ELSE IF a \in TrackersOf(q.tabId) THEN [req[a] EXCEPT !.cancelled = TRUE, !.timerArmed = FALSE]
               ELSE req[a]]
  /\ ACTIVE_ANALYSES' = MapDelete(ACTIVE_ANALYSES, q.tabId)
  /\ UNCHANGED DETECTION_CACHE

IgnoredBranch(r, q) ==
  LET ignoreResult == Result("IGNORED", FALSE, "ignored", activeMode, Len(q.content), "none") IN
  /\ detection' = [detection EXCEPT ![q.tabId] = [present |-> TRUE, result |-> ignoreResult, url |-> q.url]]
  /\ req' = [req EXCEPT ![r] = [Respond(q, ignoreResult) EXCEPT !.path = "ignored", !.nStore = @ + 1, !.nBadge = @ + 1]]
  /\ UNCHANGED <<DETECTION_CACHE, ACTIVE_ANALYSES>>

\* Variant: a hit also cancels and drops the tracker of the tab.
CacheHitBranch_Cancels(r, q, cacheKey) ==
  LET cached == DETECTION_CACHE[cacheKey] IN
  /\ detection' = [detection EXCEPT ![q.tabId] = [present |-> TRUE, result |-> cached, url |-> q.url]]
  /\ req' = [a \in DOMAIN req |->
               IF a = r THEN [Respond(q, cached) EXCEPT !.path = "hit", !.nStore = @ + 1, !.nBadge = @ + 1]
               ELSE IF a \in TrackersOf(q.tabId) THEN [req[a] EXCEPT !.cancelled = TRUE, !.timerArmed = FALSE]
               ELSE req[a]]
  /\ ACTIVE_ANALYSES' = MapDelete(ACTIVE_ANALYSES, q.tabId)
  /\ UNCHANGED DETECTION_CACHE

CacheHitBranch(r, q, cacheKey) ==
  LET cached == DETECTION_CACHE[cacheKey] IN
  /\ detection' = [detection EXCEPT ![q.tabId] = [present |-> TRUE, result |-> cached, url |-> q.url]]
  /\ req' = [req EXCEPT ![r] = [Respond(q, cached) EXCEPT !.path = "hit", !.nStore = @ + 1, !.nBadge = @ + 1]]
  /\ UNCHANGED <<DETECTION_CACHE, ACTIVE_ANALYSES>>

\* Cancel the previous tracker, register the new one, arm the watchdog and
\* call analyzeContent; when analyzeContent does not suspend, its .then
\* continuation runs in the same task.
\* Variant: the previous tracker is overwritten without being cancelled.
CancelPrevious_Skip(tabId) == req

CancelPrevious(tabId) ==
  [a \in DOMAIN req |-> IF a \in TrackersOf(tabId)
                          THEN [req[a] EXCEPT !.cancelled = TRUE, !.timerArmed = FALSE,
                                              !.cancelledBy = "request"]
                          ELSE req[a]]

FreshBranch(r, q, cacheKey) ==
  LET s == analyzeContentSync(q.content)
      tracked == [q EXCEPT !.path = "fresh", !.cacheKey = cacheKey, !.cancelled = FALSE, !.timerArmed = TRUE,
                           !.acks = 0,
                           !.dmode = activeMode, !.invoked = s.backends]
  IN
  /\ IF s.sync
       THEN /\ req' = [CancelPrevious(q.tabId) EXCEPT ![r] =
                         [tracked EXCEPT !.pc = "tabsGet", !.timerArmed = FALSE, !.result = s.result]]
            /\ ACTIVE_ANALYSES' = MapDelete(MapSet(ACTIVE_ANALYSES, q.tabId, r), q.tabId)
       ELSE /\ req' = [CancelPrevious(q.tabId) EXCEPT ![r] = [tracked EXCEPT !.pc = "analyzing"]]
            /\ ACTIVE_ANALYSES' = MapSet(ACTIVE_ANALYSES, q.tabId, r)
  /\ UNCHANGED <<DETECTION_CACHE, detection>>

\* The code after shouldIgnoreUrl(url) has resolved.
AfterIgnoreCheck(r, q, ignored) ==
  IF ignored THEN IgnoredBranch(r, q)
  ELSE LET cacheKey == getCacheKey(q.url, q.content, q.tabId) IN
       IF cacheKey \in DOMAIN DETECTION_CACHE
         THEN CacheHitBranch(r, q, cacheKey)
         ELSE FreshBranch(r, q, cacheKey)

\* History: the number of setMode messages acknowledged so far.
Acknowledged == Cardinality({s \in 1..MaxEvents : sw[s].ack \in Modes})

\* An analyzeContent message from the content script of tab t arrives.
ScanRequest(t, content, skipped) ==
  /\ events < MaxEvents
  /\ events' = events + 1
  /\ tabOpen[t]
  /\ LET r == nextReq
         q == [NoRequest EXCEPT !.tabId = t, !.url = tabUrl[t], !.content = content, !.skipped = skipped,
                                !.acks = Acknowledged]
     IN
     IF skipped THEN SkippedBranch(r, q)
     ELSE IF isExtensionPage(q.url) THEN AfterIgnoreCheck(r, q, TRUE)
     ELSE /\ req' = [req EXCEPT ![r] = [q EXCEPT !.pc = "ignore"]]
          /\ UNCHANGED <<DETECTION_CACHE, ACTIVE_ANALYSES, detection>>
  /\ nextReq' = nextReq + 1
  /\ UNCHANGED <<activeMode, currentSessions, isAiAvailable, aiAvailabilityStatus, sw, nextSw,
                 tabOpen, tabUrl, storedMode, ignoreRules, kd, ip, clearResp, cs, rw>>

\* chrome.storage.local.get(['ignoreRules']) returns inside shouldIgnoreUrl.
IgnoreRulesRead(r) ==
  /\ req[r].pc = "ignore"
  /\ AfterIgnoreCheck(r, req[r], shouldIgnoreUrl(req[r].url, ignoreRules))
  /\ UNCHANGED <<activeMode, currentSessions, isAiAvailable, aiAvailabilityStatus, nextReq, sw, nextSw,
                 tabOpen, tabUrl, events, storedMode, ignoreRules, kd, ip, clearResp, cs, rw>>

\* Variant: the completion handler does not look at the cancelled flag.
AnalyzerSettles_IgnoreCancel(r, out) ==
  /\ req[r].pc = "analyzing"
  /\ req' = [req EXCEPT ![r].pc = "tabsGet", ![r].timerArmed = FALSE, ![r].settled = out,
                        ![r].result = analyzeContentAsync(r, out)]
  /\ ACTIVE_ANALYSES' = MapDelete(ACTIVE_ANALYSES, req[r].tabId)
  /\ UNCHANGED <<activeMode, currentSessions, isAiAvailable, aiAvailabilityStatus, DETECTION_CACHE,
                 nextReq, sw, nextSw, tabOpen, tabUrl, events, storedMode, ignoreRules, detection, kd, ip, clearResp, cs, rw>>

\* The backend call awaited by analyzeContent settles; .then(result => ...)
AnalyzerSettles(r, out) ==
  /\ req[r].pc = "analyzing"
  /\ IF req[r].cancelled
       THEN /\ req' = [req EXCEPT ![r] = Finish(@)]
            /\ UNCHANGED ACTIVE_ANALYSES
       ELSE /\ req' = [req EXCEPT ![r].pc = "tabsGet", ![r].timerArmed = FALSE, ![r].settled = out,
                                  ![r].result = analyzeContentAsync(r, out)]
            /\ ACTIVE_ANALYSES' = MapDelete(ACTIVE_ANALYSES, req[r].tabId)
  /\ UNCHANGED <<activeMode, currentSessions, isAiAvailable, aiAvailabilityStatus, DETECTION_CACHE,
                 nextReq, sw, nextSw, tabOpen, tabUrl, events, storedMode, ignoreRules, detection, kd, ip, clearResp, cs, rw>>

\* Variant: the callback commits without comparing tab.url with url.
TabsGetCallback_NoUrlCheck(r) ==
  LET q == req[r] IN
  /\ q.pc = "tabsGet"
  /\ IF ~tabOpen[q.tabId]
       THEN /\ req' = [req EXCEPT ![r] = Finish(@)]
            /\ UNCHANGED <<DETECTION_CACHE, detection>>
       ELSE /\ DETECTION_CACHE' = CacheSet(DETECTION_CACHE, q.cacheKey, q.result)
            /\ detection' = [detection EXCEPT ![q.tabId] =
                               [present |-> TRUE, result |-> q.result, url |-> tabUrl[q.tabId]]]
            /\ req' = [req EXCEPT ![r] = [Respond(q, q.result) EXCEPT
                                            !.nCache = @ + 1, !.nStore = @ + 1, !.nBadge = @ + 1]]
  /\ UNCHANGED <<activeMode, currentSessions, isAiAvailable, aiAvailabilityStatus, ACTIVE_ANALYSES,
                 nextReq, sw, nextSw, tabOpen, tabUrl, events, storedMode, ignoreRules, kd, ip, clearResp, cs, rw>>

\* Variant: the callback answers without writing the cache.
TabsGetCallback_NoCache(r) ==
  LET q == req[r] IN
  /\ q.pc = "tabsGet"
  /\ IF ~tabOpen[q.tabId] \/ tabUrl[q.tabId] # q.url
       THEN /\ req' = [req EXCEPT ![r] = Finish(@)]
            /\ UNCHANGED <<DETECTION_CACHE, detection>>
       ELSE /\ UNCHANGED DETECTION_CACHE
            /\ detection' = [detection EXCEPT ![q.tabId] =
                               [present |-> TRUE, result |-> q.result, url |-> tabUrl[q.tabId]]]
            /\ req' = [req EXCEPT ![r] = [Respond(q, q.result) EXCEPT
                                            !.nCache = @ + 1, !.nStore = @ + 1, !.nBadge = @ + 1]]
  /\ UNCHANGED <<activeMode, currentSessions, isAiAvailable, aiAvailabilityStatus, ACTIVE_ANALYSES,
                 nextReq, sw, nextSw, tabOpen, tabUrl, events, storedMode, ignoreRules, kd, ip, clearResp, cs, rw>>

\* Variant: only a verdict of a backend is written to the cache.
TabsGetCallback_VerdictsOnly(r) ==
  LET q == req[r] IN
  /\ q.pc = "tabsGet"
  /\ IF ~tabOpen[q.tabId] \/ tabUrl[q.tabId] # q.url
       THEN /\ req' = [req EXCEPT ![r] = Finish(@)]
            /\ UNCHANGED <<DETECTION_CACHE, detection>>
       ELSE /\ DETECTION_CACHE' = IF q.result.method = "ai"
                                    THEN CacheSet(DETECTION_CACHE, q.cacheKey, q.result)
                                    ELSE DETECTION_CACHE
            /\ detection' = [detection EXCEPT ![q.tabId] =
                               [present |-> TRUE, result |-> q.result, url |-> tabUrl[q.tabId]]]
            /\ req' = [req EXCEPT ![r] = [Respond(q, q.result) EXCEPT
                                            !.nCache = @ + 1, !.nStore = @ + 1, !.nBadge = @ + 1]]
  /\ UNCHANGED <<activeMode, currentSessions, isAiAvailable, aiAvailabilityStatus, ACTIVE_ANALYSES,
                 nextReq, sw, nextSw, tabOpen, tabUrl, events, storedMode, ignoreRules, kd, ip, clearResp, cs, rw>>

\* chrome.tabs.get(tabId, (tab) => ...) calls back.
TabsGetCallback(r) ==
  LET q == req[r] IN
  /\ q.pc = "tabsGet"
  /\ IF ~tabOpen[q.tabId] \/ tabUrl[q.tabId] # q.url
       THEN /\ req' = [req EXCEPT ![r] = Finish(@)]
            /\ UNCHANGED <<DETECTION_CACHE, detection>>
       ELSE /\ DETECTION_CACHE' = CacheSet(DETECTION_CACHE, q.cacheKey, q.result)
            /\ detection' = [detection EXCEPT ![q.tabId] =
                               [present |-> TRUE, result |-> q.result, url |-> tabUrl[q.tabId]]]
            /\ req' = [req EXCEPT ![r] = [Respond(q, q.result) EXCEPT
                                            !.nCache = @ + 1, !.nStore = @ + 1, !.nBadge = @ + 1]]
  /\ UNCHANGED <<activeMode, currentSessions, isAiAvailable, aiAvailabilityStatus, ACTIVE_ANALYSES,
                 nextReq, sw, nextSw, tabOpen, tabUrl, events, storedMode, ignoreRules, kd, ip, clearResp, cs, rw>>

\* Variant: the timeout callback leaves the tracker in the registry.
WatchdogFires_NoDelete(r) ==
  /\ req[r].timerArmed
  /\ IF req[r].cancelled
       THEN req' = [req EXCEPT ![r].timerArmed = FALSE]
       ELSE req' = [req EXCEPT ![r].timerArmed = FALSE, ![r].timedOut = TRUE,
                               ![r].responses = Append(@, TimeoutResult(req[r].content))]
  /\ UNCHANGED <<activeMode, currentSessions, isAiAvailable, aiAvailabilityStatus, DETECTION_CACHE, ACTIVE_ANALYSES,
                 nextReq, sw, nextSw, tabOpen, tabUrl, events, storedMode, ignoreRules, detection, kd, ip, clearResp, cs, rw>>

\* The 60 second setTimeout callback of the tracker runs.
WatchdogFires(r) ==
  /\ req[r].timerArmed
  /\ IF req[r].cancelled
       THEN /\ req' = [req EXCEPT ![r].timerArmed = FALSE]
            /\ UNCHANGED ACTIVE_ANALYSES
       ELSE /\ ACTIVE_ANALYSES' = MapDelete(ACTIVE_ANALYSES, req[r].tabId)
            /\ req' = [req EXCEPT ![r].timerArmed = FALSE, ![r].timedOut = TRUE,
                                  ![r].responses = Append(@, TimeoutResult(req[r].content))]
  /\ UNCHANGED <<activeMode, currentSessions, isAiAvailable, aiAvailabilityStatus, DETECTION_CACHE,
                 nextReq, sw, nextSw, tabOpen, tabUrl, events, storedMode, ignoreRules, detection, kd, ip, clearResp, cs, rw>>

\* ---------------------------------------------------------- chrome.tabs.*
\* Cancel block shared by onRemoved and onUpdated.
CancelAndDelete(tabId, cause) ==
  [a \in DOMAIN req |-> IF a \in TrackersOf(tabId)
                          THEN [req[a] EXCEPT !.cancelled = TRUE, !.timerArmed = FALSE,
                                              !.cancelledBy = cause]
                          ELSE req[a]]

\* History: the tab left the URL of an analysis whose analyzer call is pending.
\* navStarted: the tab started a load (to any URL) after the fresh analysis
\* was started and before the chrome.tabs.get callback of its completion ran.
NoteNavigation(rq, t, url) ==
  [a \in DOMAIN rq |->
     LET q1 == IF rq[a].tabId = t /\ rq[a].pc = "analyzing" /\ rq[a].url # url
                 THEN [rq[a] EXCEPT !.navigatedAway = TRUE]
                 ELSE rq[a]
     IN IF rq[a].tabId = t /\ rq[a].path = "fresh" /\ rq[a].pc \in {"analyzing", "tabsGet"}
          THEN [q1 EXCEPT !.navStarted = TRUE]
          ELSE q1]

\* Tab t starts loading url; onUpdated fires with changeInfo.status = 'loading'.
TabLoading(t, url) ==
  /\ tabOpen[t]
  /\ events < MaxEvents
  /\ events' = events + 1
  /\ tabUrl' = [tabUrl EXCEPT ![t] = url]
  /\ IF isSystemUrl(url)
       THEN /\ detection' = [detection EXCEPT ![t] =
                               [present |-> TRUE, result |-> Result("SKIPPED", FALSE, "skipped", "none", -1, "none"), url |-> <<>>]]
            /\ req' = NoteNavigation(req, t, url)
            /\ UNCHANGED ACTIVE_ANALYSES
       ELSE /\ req' = NoteNavigation(CancelAndDelete(t, "navigation"), t, url)
            /\ ACTIVE_ANALYSES' = MapDelete(ACTIVE_ANALYSES, t)
            /\ detection' = [detection EXCEPT ![t] = NoDetection]
  /\ UNCHANGED <<activeMode, currentSessions, isAiAvailable, aiAvailabilityStatus, DETECTION_CACHE,
                 nextReq, sw, nextSw, tabOpen, storedMode, ignoreRules, kd, ip, clearResp, cs, rw>>

\* Variant: onRemoved cancels the tracker and leaves it in the registry.
TabRemoved_NoDelete(t) ==
  /\ tabOpen[t]
  /\ events < MaxEvents
  /\ events' = events + 1
  /\ tabOpen' = [tabOpen EXCEPT ![t] = FALSE]
  /\ req' = CancelAndDelete(t, "close")
  /\ detection' = [detection EXCEPT ![t] = NoDetection]
  /\ DETECTION_CACHE' = CacheDeleteTab(DETECTION_CACHE, t)
  /\ UNCHANGED <<activeMode, currentSessions, isAiAvailable, aiAvailabilityStatus, ACTIVE_ANALYSES,
                 nextReq, sw, nextSw, tabUrl, storedMode, ignoreRules, kd, ip, clearResp, cs, rw>>

\* Tab t is closed; onRemoved fires.
TabRemoved(t) ==
  /\ tabOpen[t]
  /\ events < MaxEvents
  /\ events' = events + 1
  /\ tabOpen' = [tabOpen EXCEPT ![t] = FALSE]
  /\ req' = CancelAndDelete(t, "close")
  /\ ACTIVE_ANALYSES' = MapDelete(ACTIVE_ANALYSES, t)
  /\ detection' = [detection EXCEPT ![t] = NoDetection]
  /\ DETECTION_CACHE' = CacheDeleteTab(DETECTION_CACHE, t)
  /\ UNCHANGED <<activeMode, currentSessions, isAiAvailable, aiAvailabilityStatus,
                 nextReq, sw, nextSw, tabUrl, storedMode, ignoreRules, kd, ip, clearResp, cs, rw>>

\* -------------------------------------------------- onMessage clearTabCache
\* A clearTabCache message of the popup (rescan button) for tab tabId.
\* Variant: the prefix tested is `tab${tabId}` without the colon.
ClearTabCache_NoColon(tabId) ==
  LET keysToDelete == {k \in DOMAIN DETECTION_CACHE : startsWith(k, TAB \o NumberToString(tabId))} IN
  /\ events < MaxEvents
  /\ events' = events + 1
  /\ DETECTION_CACHE' = [k \in (DOMAIN DETECTION_CACHE) \ keysToDelete |-> DETECTION_CACHE[k]]
  /\ clearResp' = [n |-> clearResp.n + 1, tabId |-> tabId, success |-> TRUE,
                   clearedCount |-> Cardinality(keysToDelete)]
  /\ UNCHANGED <<activeMode, currentSessions, isAiAvailable, aiAvailabilityStatus, ACTIVE_ANALYSES,
                 req, nextReq, sw, nextSw, tabOpen, tabUrl, storedMode, ignoreRules, detection, kd, ip, cs, rw>>

ClearTabCache(tabId) ==
  LET keysToDelete == {k \in DOMAIN DETECTION_CACHE : startsWith(k, TAB \o NumberToString(tabId) \o COLON)} IN
  /\ events < MaxEvents
  /\ events' = events + 1
  /\ DETECTION_CACHE' = [k \in (DOMAIN DETECTION_CACHE) \ keysToDelete |-> DETECTION_CACHE[k]]
  /\ clearResp' = [n |-> clearResp.n + 1, tabId |-> tabId, success |-> TRUE,
                   clearedCount |-> Cardinality(keysToDelete)]
  /\ UNCHANGED <<activeMode, currentSessions, isAiAvailable, aiAvailabilityStatus, ACTIVE_ANALYSES,
                 req, nextReq, sw, nextSw, tabOpen, tabUrl, storedMode, ignoreRules, detection, kd, ip, cs, rw>>

\* ------------------------------------------------------ setInterval cleanup
CACHE_LIMIT == 100  \* DETECTION_CACHE.size > 100

\* The 5 minute interval callback.  `old` are the tabs whose stored result is
\* more than an hour old at that moment (timestamps are not kept in the
\* state, so any set of tabs may qualify).
CleanupTick(old) ==
  /\ DETECTION_CACHE' = IF Cardinality(DOMAIN DETECTION_CACHE) > CACHE_LIMIT THEN CacheClear ELSE DETECTION_CACHE
  /\ detection' = [t \in Tabs |-> IF t \in old THEN NoDetection ELSE detection[t]]
  /\ UNCHANGED <<activeMode, currentSessions, isAiAvailable, aiAvailabilityStatus, ACTIVE_ANALYSES,
                 req, nextReq, sw, nextSw, tabOpen, tabUrl, events, storedMode, ignoreRules, kd, ip, clearResp, cs, rw>>

\* ------------------------------------------------ switchMode / initializeAI
\* setMode message: switchMode(newMode) up to its first await.
SetMode(m) ==
  /\ events < MaxEvents
  /\ events' = events + 1
  /\ currentSessions' = NullSessions
  /\ DETECTION_CACHE' = CacheClear
  /\ activeMode' = m
  /\ storedMode' = m
  /\ sw' = [sw EXCEPT ![nextSw] = [NoSwitch EXCEPT !.pc = "set", !.newMode = m]]
  /\ nextSw' = nextSw + 1
  /\ UNCHANGED <<isAiAvailable, aiAvailabilityStatus, ACTIVE_ANALYSES, req, nextReq,
                 tabOpen, tabUrl, ignoreRules, detection, kd, ip, clearResp, cs, rw>>

\* chrome.storage.local.set({activeMode}) of switchMode returns; initializeAI
\* starts and suspends at chrome.storage.local.get(['activeMode']).
SwitchStored(s) ==
  /\ sw[s].pc = "set"
  /\ sw' = [sw EXCEPT ![s].pc = "get"]
  /\ UNCHANGED <<activeMode, currentSessions, isAiAvailable, aiAvailabilityStatus, DETECTION_CACHE,
                 ACTIVE_ANALYSES, req, nextReq, nextSw, tabOpen, tabUrl, events, storedMode, ignoreRules,
                 detection, kd, ip, clearResp, cs, rw>>

\* initializeAI resumes with savedMode and calls the initializer of the mode.
\* (No code of the extension writes 'compatibility', so that fix-up branch is
\* never taken.)
InitModeLoaded(s) ==
  /\ sw[s].pc = "get"
  /\ activeMode' = IF storedMode = "none" THEN "cloud" ELSE storedMode
  /\ sw' = [sw EXCEPT ![s].pc = "init", ![s].initMode = activeMode']
  /\ UNCHANGED <<currentSessions, isAiAvailable, aiAvailabilityStatus, DETECTION_CACHE,
                 ACTIVE_ANALYSES, req, nextReq, nextSw, tabOpen, tabUrl, events, storedMode, ignoreRules,
                 detection, kd, ip, clearResp, cs, rw>>

\* initializeCloudMode() / initializeLocalMode() settles; initializeAI and
\* switchMode finish and the setMode handler acknowledges.
\* Variant: initializeAI has no catch block, so a throw of the initializer
\* rejects switchMode and the .then of the setMode handler never runs.
InitBackendSettles_Rethrow(s, out) ==
  /\ sw[s].pc = "init"
  /\ out \in (IF sw[s].initMode = "cloud" THEN CloudInitOutcomes ELSE LocalInitOutcomes)
  /\ IF out = "throw"
       THEN /\ sw' = [sw EXCEPT ![s].pc = "rejected", ![s].outcome = out]
            /\ UNCHANGED <<currentSessions, isAiAvailable, aiAvailabilityStatus>>
       ELSE /\ currentSessions' = [mode |-> sw[s].initMode, availability |-> out,
                                   ready |-> (out = "readily")]
            /\ isAiAvailable' = (out = "readily")
            /\ aiAvailabilityStatus' = out
            /\ sw' = [sw EXCEPT ![s].pc = "done", ![s].outcome = out, ![s].ack = IF s = 0 THEN "none" ELSE activeMode]
  /\ UNCHANGED <<activeMode, DETECTION_CACHE, ACTIVE_ANALYSES, req, nextReq, nextSw,
                 tabOpen, tabUrl, events, storedMode, ignoreRules, detection, kd, ip, clearResp, cs, rw>>

InitBackendSettles(s, out) ==
  /\ sw[s].pc = "init"
  /\ out \in (IF sw[s].initMode = "cloud" THEN CloudInitOutcomes ELSE LocalInitOutcomes)
  /\ IF out = "throw"
       THEN /\ isAiAvailable' = FALSE
            /\ UNCHANGED <<currentSessions, aiAvailabilityStatus>>
       ELSE /\ currentSessions' = [mode |-> sw[s].initMode, availability |-> out,
                                   ready |-> (out = "readily")]
            /\ isAiAvailable' = (out = "readily")
            /\ aiAvailabilityStatus' = out
  /\ sw' = [sw EXCEPT ![s].pc = "done", ![s].outcome = out, ![s].ack = IF s = 0 THEN "none" ELSE activeMode]
  /\ UNCHANGED <<activeMode, DETECTION_CACHE, ACTIVE_ANALYSES, req, nextReq, nextSw,
                 tabOpen, tabUrl, events, storedMode, ignoreRules, detection, kd, ip, clearResp, cs, rw>>

\* --------------------------------------------------------- specification
NoProbe == [stage |-> 0, tab1 |-> 0, url1 |-> <<>>, content1 |-> <<>>, mode1 |-> "none", key1 |-> <<>>,
            tab2 |-> 0, url2 |-> <<>>, content2 |-> <<>>, mode2 |-> "none", key2 |-> <<>>]

NoClearResp == [n |-> 0, tabId |-> 0, success |-> FALSE, clearedCount |-> 0]

\* analyzePage calls of one content-script instance.
MaxCalls == 4

\* The content script after its top-level code has run.  Only the length
\* of lastAnalyzedContent is kept (0 for '').
NoScript == [analysisInProgress |-> FALSE, lastAnalyzedContent |-> 0,
             calls |-> [c \in 1..MaxCalls |-> "none"], nextCall |-> 1]

\* addIgnoreRule / removeIgnoreRule calls.
MaxOps == 2

NoOp == [kind |-> "none", pc |-> "none", pattern |-> <<>>, type |-> "none", index |-> 0,
         clicked |-> [pattern |-> <<>>, type |-> "none"], ignoreRules |-> <<>>]

NoOps == [base |-> <<>>, ops |-> [o \in 1..MaxOps |-> NoOp], nextOp |-> 1]

NoIgnoreProbe == [stage |-> 0, url |-> <<>>, got |-> [ok |-> TRUE, ignoreRules |-> <<>>], ignored |-> FALSE]

InitialRules == <<[pattern |-> URL_AX, type |-> "url"]>>

\* Module state after the top-level script has run, but for activeMode.
InitRest ==
  /\ currentSessions = NullSessions
  /\ isAiAvailable = FALSE
  /\ aiAvailabilityStatus = "initializing"
  /\ DETECTION_CACHE = CacheClear
  /\ ACTIVE_ANALYSES = {}
  /\ req = [r \in 1..MaxEvents |-> NoRequest]
  /\ nextReq = 1
  /\ sw = [s \in 0..MaxEvents |-> IF s = 0 THEN [NoSwitch EXCEPT !.pc = "get"] ELSE NoSwitch]
  /\ nextSw = 1
  /\ tabOpen = [t \in Tabs |-> t = 1]
  /\ tabUrl = [t \in Tabs |-> URL_A]
  /\ events = 0
  /\ storedMode = "none"
  /\ ignoreRules = InitialRules
  /\ detection = [t \in Tabs |-> NoDetection]

Init ==
  /\ activeMode = "cloud"
  /\ InitRest
  /\ kd = NoProbe
  /\ ip = NoIgnoreProbe
  /\ clearResp = NoClearResp
  /\ cs = NoScript
  /\ rw = NoOps

Next ==
  \/ \E t \in Tabs, m \in Messages : ScanRequest(t, m.content, m.skipped)
  \/ \E r \in 1..MaxEvents : IgnoreRulesRead(r)
  \/ \E r \in 1..MaxEvents, out \in BackendOutcomes : AnalyzerSettles(r, out)
  \/ \E r \in 1..MaxEvents : TabsGetCallback(r)
  \/ \E r \in 1..MaxEvents : WatchdogFires(r)
  \/ \E t \in Tabs, u \in Urls : TabLoading(t, u)
  \/ \E t \in Tabs : TabRemoved(t)
  \/ \E m \in Modes : SetMode(m)
  \/ \E s \in 0..MaxEvents : SwitchStored(s)
  \/ \E s \in 0..MaxEvents : InitModeLoaded(s)
  \/ \E s \in 0..MaxEvents, out \in CloudInitOutcomes \cup LocalInitOutcomes : InitBackendSettles(s, out)

Spec == Init /\ [][Next]_vars

\* A step of some switchMode / initializeAI activation.
SwitchStep ==
  \E s \in 0..MaxEvents :
    \/ SwitchStored(s)
    \/ InitModeLoaded(s)
    \/ \E out \in CloudInitOutcomes \cup LocalInitOutcomes : InitBackendSettles(s, out)

\* The mode controller on its own: setMode messages and the steps of
\* switchMode / initializeAI.  These steps neither read nor write the
\* request-side state, so leaving the other handlers out changes neither
\* what they can do nor when they are enabled.
\* Fairness: every chrome.storage call of switchMode / initializeAI calls
\* back and the initializer of the mode settles (returns or throws).
ModeNext ==
  \/ \E m \in Modes : SetMode(m)
  \/ SwitchStep

SpecMode == Init /\ [][ModeNext]_vars /\ WF_vars(SwitchStep)

\* ------------------------------------------------- settings page: setMode
\* A click on a mode option: setMode(mode) of the settings page up to its
\* first await, chrome.storage.local.set({activeMode: mode}).
SettingsSetMode(m) ==
  /\ events < MaxEvents
  /\ events' = events + 1
  /\ storedMode' = m
  /\ sw' = [sw EXCEPT ![nextSw] = [NoSwitch EXCEPT !.pc = "written", !.newMode = m]]
  /\ nextSw' = nextSw + 1
  /\ UNCHANGED <<activeMode, currentSessions, isAiAvailable, aiAvailabilityStatus, DETECTION_CACHE,
                 ACTIVE_ANALYSES, req, nextReq, tabOpen, tabUrl, ignoreRules, detection, kd, ip, clearResp, cs, rw>>

\* The storage write of the page has returned and its setMode message reaches
\* the background: switchMode(newMode) up to its first await.  The messages
\* of one page arrive in the order of its clicks.
SettingsNotify(s) ==
  /\ sw[s].pc = "written"
  /\ \A k \in 0..MaxEvents : k < s => sw[k].pc # "written"
  /\ currentSessions' = NullSessions
  /\ DETECTION_CACHE' = CacheClear
  /\ activeMode' = sw[s].newMode
  /\ storedMode' = sw[s].newMode
  /\ sw' = [sw EXCEPT ![s].pc = "set"]
  /\ UNCHANGED <<isAiAvailable, aiAvailabilityStatus, ACTIVE_ANALYSES, req, nextReq, nextSw, events,
                 tabOpen, tabUrl, ignoreRules, detection, kd, ip, clearResp, cs, rw>>

SettingsNext ==
  \/ \E m \in Modes : SettingsSetMode(m)
  \/ \E s \in 0..MaxEvents : SettingsNotify(s)
  \/ SwitchStep

SpecSettings == Init /\ [][SettingsNext]_vars

\* ------------------------------------------------------ warm start states
\* The service worker after its startup initializeAI has finished with the
\* cloud backend ready, no request in progress.
ReadySessions == [mode |-> "cloud", availability |-> "readily", ready |-> TRUE]

ReadyState ==
  /\ activeMode = "cloud"
  /\ currentSessions = ReadySessions
  /\ isAiAvailable = TRUE
  /\ aiAvailabilityStatus = "readily"
  /\ ACTIVE_ANALYSES = {}
  /\ req = [r \in 1..MaxEvents |-> NoRequest]
  /\ nextReq = 1
  /\ sw = [s \in 0..MaxEvents |->
             IF s = 0 THEN [NoSwitch EXCEPT !.pc = "done", !.initMode = "cloud", !.outcome = "readily"]
             ELSE NoSwitch]
  /\ nextSw = 1
  /\ events = 0
  /\ storedMode = "none"
  /\ ignoreRules = InitialRules
  /\ kd = NoProbe
  /\ ip = NoIgnoreProbe
  /\ clearResp = NoClearResp
  /\ cs = NoScript
  /\ rw = NoOps

\* Both tabs are open on http://a/ and the analysis of content 'y' has been
\* committed for each of them (cache entry and stored result).
WarmResult == Result("SAFE", FALSE, "ai", "cloud", Len(CONTENT_Y), "cloud")

WarmKey(t) == getCacheKeyIn("cloud", URL_A, CONTENT_Y, t)

WarmInit ==
  /\ ReadyState
  /\ tabOpen = [t \in Tabs |-> TRUE]
  /\ tabUrl = [t \in Tabs |-> URL_A]
  /\ DETECTION_CACHE = [k \in {WarmKey(t) : t \in Tabs} |-> WarmResult]
  /\ detection = [t \in Tabs |-> [present |-> TRUE, result |-> WarmResult, url |-> URL_A]]

WarmNext ==
  \/ Next
  \/ \E t \in Tabs : ClearTabCache(t)

SpecWarm == WarmInit /\ [][WarmNext]_vars

\* Tab 1 is open and the cache holds n committed analyses of tab 1.
FillContent(i) == <<"n">> \o NumberToString(i)

FillCache(n) ==
  [k \in {getCacheKeyIn("cloud", URL_A, FillContent(i), 1) : i \in 1..n} |->
     Result("SAFE", FALSE, "ai", "cloud", Len(k) - Len(getCacheKeyIn("cloud", URL_A, <<>>, 1)), "cloud")]

CleanupInit ==
  /\ ReadyState
  /\ tabOpen = [t \in Tabs |-> t = 1]
  /\ tabUrl = [t \in Tabs |-> URL_A]
  /\ \E n \in {CACHE_LIMIT - 1, CACHE_LIMIT} : DETECTION_CACHE = FillCache(n)
  /\ detection = [t \in Tabs |-> NoDetection]

\* The commit path of the analyzeContent handler and the cleanup interval.
CleanupNext ==
  \/ \E m \in Messages : ScanRequest(1, m.content, m.skipped)
  \/ \E r \in 1..MaxEvents : IgnoreRulesRead(r)
  \/ \E r \in 1..MaxEvents, out \in BackendOutcomes : AnalyzerSettles(r, out)
  \/ \E r \in 1..MaxEvents : TabsGetCallback(r)
  \/ \E old \in SUBSET {1} : CleanupTick(old)

SpecCleanup == CleanupInit /\ [][CleanupNext]_vars

\* ------------------------------------------------- key derivation probe
\* Two requests are keyed one after the other, with an assignment to
\* activeMode (as in switchMode) in between.
LONG_P == [i \in 1..(PREFIX_LEN + 1) |-> IF i <= PREFIX_LEN THEN "x" ELSE "p"]
LONG_Q == [i \in 1..(PREFIX_LEN + 1) |-> IF i <= PREFIX_LEN THEN "x" ELSE "q"]
KeyContents == Contents \cup {LONG_P, LONG_Q}

KeyInit ==
  /\ activeMode \in Modes
  /\ InitRest
  /\ \E t1 \in Tabs, t2 \in Tabs, u1 \in Urls, u2 \in Urls, c1 \in KeyContents, c2 \in KeyContents :
       kd = [NoProbe EXCEPT !.tab1 = t1, !.url1 = u1, !.content1 = c1,
                            !.tab2 = t2, !.url2 = u2, !.content2 = c2]
  /\ ip = NoIgnoreProbe
  /\ clearResp = NoClearResp
  /\ cs = NoScript
  /\ rw = NoOps

KeyFirst ==
  /\ kd.stage = 0
  /\ kd' = [kd EXCEPT !.stage = 1, !.mode1 = activeMode,
                      !.key1 = getCacheKey(kd.url1, kd.content1, kd.tab1)]
  /\ UNCHANGED <<coreVars, ip, cs, rw>>

KeyModeAssigned(m) ==
  /\ kd.stage = 1
  /\ activeMode' = m
  /\ kd' = [kd EXCEPT !.stage = 2]
  /\ UNCHANGED <<currentSessions, isAiAvailable, aiAvailabilityStatus, DETECTION_CACHE, ACTIVE_ANALYSES,
                 req, nextReq, sw, nextSw, tabOpen, tabUrl, events, storedMode, ignoreRules, detection, ip, clearResp, cs, rw>>

KeySecond ==
  /\ kd.stage = 2
  /\ kd' = [kd EXCEPT !.stage = 3, !.mode2 = activeMode,
                      !.key2 = getCacheKey(kd.url2, kd.content2, kd.tab2)]
  /\ UNCHANGED <<coreVars, ip, cs, rw>>

KeyNext == KeyFirst \/ (\E m \in Modes : KeyModeAssigned(m)) \/ KeySecond

SpecKey == KeyInit /\ [][KeyNext]_vars

\* -------------------------------------------------- shouldIgnoreUrl probe
\* shouldIgnoreUrl is applied to one URL and one settlement of the storage read.
MaxRules == 2

ProbeUrls == Urls \cup {UNKNOWN}

ProbeRules == {[pattern |-> URL_A, type |-> "url"], [pattern |-> UNKNOWN, type |-> "url"],
               [pattern |-> <<"a">>, type |-> "domain"], [pattern |-> <<"i">>, type |-> "domain"]}

RuleLists == UNION {[1..n -> ProbeRules] : n \in 0..MaxRules}

IgnoreInit ==
  /\ activeMode = "cloud"
  /\ InitRest
  /\ kd = NoProbe
  /\ \E u \in ProbeUrls, ok \in BOOLEAN, rules \in RuleLists :
       ip = [NoIgnoreProbe EXCEPT !.url = u, !.got = [ok |-> ok, ignoreRules |-> rules]]
  /\ clearResp = NoClearResp
  /\ cs = NoScript
  /\ rw = NoOps

IgnoreEvaluate ==
  /\ ip.stage = 0
  /\ ip' = [ip EXCEPT !.stage = 1, !.ignored = shouldIgnoreUrlGet(ip.url, ip.got)]
  /\ UNCHANGED <<coreVars, kd, cs, rw>>

IgnoreNext == IgnoreEvaluate

SpecIgnore == IgnoreInit /\ [][IgnoreNext]_vars

\* ------------------------------------------------ content script: analyzePage
\* Lengths of the text extractVisibleContent() returns.
ContentLengths == {10, 100, 102, 200}

MIN_CONTENT == 50

\* Math.abs(content.length - lastAnalyzedContent.length) < lastAnalyzedContent.length * 0.05
Unchanged5(len, last) ==
  LET d == IF len >= last THEN len - last ELSE last - len IN 20 * d < last

\* analyzePage() is called (page load or debounced mutation callback) and
\* runs to its first await or to its return; the finally block runs on
\* every return.  skipPage: the URL is an internal page, a private address
\* or a mail inbox list.
AnalyzePage(skipPage, len) ==
  LET c == cs.nextCall IN
  /\ c <= MaxCalls
  /\ cs' = IF cs.analysisInProgress
             THEN [cs EXCEPT !.analysisInProgress = FALSE, !.calls[c] = "done", !.nextCall = c + 1]
           ELSE IF skipPage
             THEN [cs EXCEPT !.calls[c] = "awaitSkipped", !.nextCall = c + 1]
           ELSE IF len < MIN_CONTENT
             THEN [cs EXCEPT !.analysisInProgress = FALSE, !.calls[c] = "done", !.nextCall = c + 1]
           ELSE IF cs.lastAnalyzedContent # 0 /\ Unchanged5(len, cs.lastAnalyzedContent)
             THEN [cs EXCEPT !.analysisInProgress = FALSE, !.calls[c] = "done", !.nextCall = c + 1]
           ELSE [cs EXCEPT !.analysisInProgress = TRUE, !.lastAnalyzedContent = len,
                           !.calls[c] = "await", !.nextCall = c + 1]
  /\ UNCHANGED <<coreVars, rw, kd, ip>>

\* chrome.runtime.sendMessage of call c settles (response or rejection);
\* the rest of analyzePage and its finally block run.
ResponseArrives(c) ==
  /\ cs.calls[c] \in {"await", "awaitSkipped"}
  /\ cs' = [cs EXCEPT !.analysisInProgress = FALSE, !.calls[c] = "done"]
  /\ UNCHANGED <<coreVars, rw, kd, ip>>

ContentNext ==
  \/ \E skipPage \in BOOLEAN, len \in ContentLengths : AnalyzePage(skipPage, len)
  \/ \E c \in 1..MaxCalls : ResponseArrives(c)

SpecContent == Init /\ [][ContentNext]_vars

\* ------------------------------- popup / settings page: the ignore-rule list
\* Rules the buttons of the popup add for the tab it shows.
PageRules == {[pattern |-> URL_A, type |-> "url"], [pattern |-> URL_AX, type |-> "url"],
              [pattern |-> <<"a">>, type |-> "domain"]}

\* ignoreRules.some(rule => rule.pattern === pattern && rule.type === type)
RuleExists(list, pattern, type) ==
  \E i \in 1..Len(list) : list[i].pattern = pattern /\ list[i].type = type

\* ignoreRules.splice(index, 1) with a 1-based index
Splice(list, index) ==
  [i \in 1..(IF index \in 1..Len(list) THEN Len(list) - 1 ELSE Len(list)) |->
     IF i < index THEN list[i] ELSE list[i + 1]]

NoDuplicates(list) == \A i, j \in 1..Len(list) : i # j => list[i] # list[j]

OpsIdle == \A o \in 1..MaxOps : rw.ops[o].pc \in {"none", "done"}

\* addIgnoreRule(pattern, type) is called and suspends at
\* chrome.storage.local.get(['ignoreRules']).
AddIgnoreRule(pattern, type) ==
  LET o == rw.nextOp IN
  /\ o <= MaxOps
  /\ rw' = [rw EXCEPT !.ops[o] = [NoOp EXCEPT !.kind = "add", !.pc = "get", !.pattern = pattern, !.type = type],
                      !.nextOp = o + 1]
  /\ UNCHANGED <<coreVars, cs, kd, ip>>

\* A Remove button of the settings page, rendered from the list the page
\* loaded, is clicked: removeIgnoreRule(index) is called and suspends at
\* chrome.storage.local.get(['ignoreRules']).
RemoveIgnoreRule(index) ==
  LET o == rw.nextOp IN
  /\ o <= MaxOps
  /\ \A k \in 1..MaxOps : rw.ops[k].kind # "remove"
  /\ index \in 1..Len(rw.base)
  /\ rw' = [rw EXCEPT !.ops[o] = [NoOp EXCEPT !.kind = "remove", !.pc = "get", !.index = index,
                                              !.clicked = rw.base[index]],
                      !.nextOp = o + 1]
  /\ UNCHANGED <<coreVars, cs, kd, ip>>

\* Variant: addIgnoreRule pushes without looking for an existing rule.
StorageGetReturns_NoExists(o) ==
  LET q == rw.ops[o]
      rule == [pattern |-> q.pattern, type |-> q.type]
  IN
  /\ q.pc = "get"
  /\ rw' = [rw EXCEPT !.ops[o] =
              IF q.kind = "add"
                THEN [q EXCEPT !.pc = "set", !.ignoreRules = Append(ignoreRules, rule)]
                ELSE [q EXCEPT !.pc = "set", !.ignoreRules = Splice(ignoreRules, q.index)]]
  /\ UNCHANGED <<coreVars, cs, kd, ip>>

\* The storage read of call o returns the list as stored now; the call
\* changes its copy and suspends at chrome.storage.local.set({ignoreRules}),
\* or, for an add of an existing rule, returns.
StorageGetReturns(o) ==
  LET q == rw.ops[o]
      rule == [pattern |-> q.pattern, type |-> q.type]
  IN
  /\ q.pc = "get"
  /\ rw' = [rw EXCEPT !.ops[o] =
              IF q.kind = "add"
                THEN IF RuleExists(ignoreRules, q.pattern, q.type)
                       THEN [q EXCEPT !.pc = "done", !.ignoreRules = ignoreRules]
                       ELSE [q EXCEPT !.pc = "set", !.ignoreRules = Append(ignoreRules, rule)]
                ELSE [q EXCEPT !.pc = "set", !.ignoreRules = Splice(ignoreRules, q.index)]]
  /\ UNCHANGED <<coreVars, cs, kd, ip>>

\* The storage write of call o is applied and the call returns.
StorageSetApplied(o) ==
  /\ rw.ops[o].pc = "set"
  /\ ignoreRules' = rw.ops[o].ignoreRules
  /\ rw' = [rw EXCEPT !.ops[o].pc = "done"]
  /\ UNCHANGED <<activeMode, currentSessions, isAiAvailable, aiAvailabilityStatus, DETECTION_CACHE,
                 ACTIVE_ANALYSES, req, nextReq, sw, nextSw, tabOpen, tabUrl, events, storedMode,
                 detection, kd, ip, clearResp, cs>>

\* Lists without duplicates of at most MaxRules rules.
StoredLists == {l \in UNION {[1..n -> PageRules] : n \in 0..MaxRules} : NoDuplicates(l)}

RulesInit ==
  /\ activeMode = "cloud"
  /\ currentSessions = NullSessions
  /\ isAiAvailable = FALSE
  /\ aiAvailabilityStatus = "initializing"
  /\ DETECTION_CACHE = CacheClear
  /\ ACTIVE_ANALYSES = {}
  /\ req = [r \in 1..MaxEvents |-> NoRequest]
  /\ nextReq = 1
  /\ sw = [s \in 0..MaxEvents |-> IF s = 0 THEN [NoSwitch EXCEPT !.pc = "get"] ELSE NoSwitch]
  /\ nextSw = 1
  /\ tabOpen = [t \in Tabs |-> t = 1]
  /\ tabUrl = [t \in Tabs |-> URL_A]
  /\ events = 0
  /\ storedMode = "none"
  /\ detection = [t \in Tabs |-> NoDetection]
  /\ kd = NoProbe
  /\ ip = NoIgnoreProbe
  /\ clearResp = NoClearResp
  /\ cs = NoScript
  /\ ignoreRules \in StoredLists
  /\ rw = [NoOps EXCEPT !.base = ignoreRules]

\* The popup and the settings page work on the list at the same time.
RulesNext ==
  \/ \E rule \in PageRules : AddIgnoreRule(rule.pattern, rule.type)
  \/ \E index \in 1..MaxRules : RemoveIgnoreRule(index)
  \/ \E o \in 1..MaxOps : StorageGetReturns(o)
  \/ \E o \in 1..MaxOps : StorageSetApplied(o)

SpecRules == RulesInit /\ [][RulesNext]_vars

\* addIgnoreRule calls one after the other: a call starts when no other is
\* in progress.
AddNext ==
  \/ \E rule \in PageRules : OpsIdle /\ AddIgnoreRule(rule.pattern, rule.type)
  \/ \E o \in 1..MaxOps : StorageGetReturns(o)
  \/ \E o \in 1..MaxOps : StorageSetApplied(o)

SpecAdd == RulesInit /\ [][AddNext]_vars

\* =================================================================== claims
Reqs == 1..MaxEvents

\* r went through the fresh-analysis path (a tracker was registered for it).
Fresh(q) == q.path = "fresh"

\* r was answered from the cache.
IsCacheHit(q) == q.path = "hit"

SameEffects(q, q2) ==
  /\ q2.nCache = q.nCache
  /\ q2.nStore = q.nStore
  /\ q2.nBadge = q.nBadge
  /\ q2.responses = q.responses

endsWith(s, p) == Len(s) >= Len(p) /\ SubSeq(s, Len(s) - Len(p) + 1, Len(s)) = p

\* C1: an analysis whose tab navigated to a different URL while its analyzer
\* call was pending never writes a cache entry, a stored result or a badge.
C1_NavigationRace ==
  \A r \in Reqs : req[r].navigatedAway =>
    (req[r].nCache = 0 /\ req[r].nStore = 0 /\ req[r].nBadge = 0)

\* C2: once a tracker is cancelled, no later step performs a cache write, a
\* badge update, a stored-result write or a response on its behalf.
C2_CancelledDiscarded ==
  [][\A r \in Reqs : req[r].cancelled => SameEffects(req[r], req'[r])]_vars

C2_Witness ==
  \E a \in Reqs, b \in Reqs :
    /\ req[a].cancelledBy = "request" /\ req[a].pc = "done"
    /\ req[b].tabId = req[a].tabId /\ req[b].nCache = 1

\* C3: every scan request whose handling has run to its end was answered.
C3_AlwaysAnswered ==
  \A r \in Reqs : req[r].pc = "done" => Len(req[r].responses) >= 1

\* C4: the registry holds at most one tracker per tab, and a step that
\* registers a tracker for a tab leaves the tracker the registry held for that
\* tab cancelled with its watchdog disarmed.
C4_OneTrackerPerTab ==
  [][/\ \A t \in Tabs : Cardinality({a \in ACTIVE_ANALYSES' : req'[a].tabId = t}) <= 1
     /\ \A r \in Reqs : (~Fresh(req[r]) /\ Fresh(req'[r])) =>
          \A a \in ACTIVE_ANALYSES : req[a].tabId = req'[r].tabId =>
            (req'[a].cancelled /\ ~req'[a].timerArmed /\ a \notin ACTIVE_ANALYSES')]_vars

C4_Witness ==
  \E a \in Reqs, b \in ACTIVE_ANALYSES :
    req[a].cancelledBy = "request" /\ req[b].tabId = req[a].tabId /\ req[b].timerArmed

\* C5: an analysis whose watchdog fired has exactly one response, the timeout
\* result, and is not in the registry.
C5_TimeoutExactlyOnce ==
  \A r \in Reqs : req[r].timedOut =>
    /\ Len(req[r].responses) = 1
    /\ req[r].responses[1].method = "timeout"
    /\ r \notin ACTIVE_ANALYSES

\* C6: after the watchdog of an analysis fired, no step writes or responds for
\* that analysis; and an analysis whose analyzer call settled has no armed
\* watchdog.
C6_FirstOfTwoJoin ==
  [][\A r \in Reqs :
       /\ req[r].timedOut => SameEffects(req[r], req'[r])
       /\ req'[r].pc \in {"tabsGet", "done"} => ~req'[r].timerArmed]_vars

\* C7: a fresh analysis writes the cache and the stored result only in a step
\* taken while its tracker is not cancelled and its tab exists with the
\* request's URL, and then the cache holds its result under its key; a result
\* that fails a check is dropped without cache write, stored result or response.
C7_TwoPhaseCommit ==
  [][\A r \in Reqs :
       /\ (Fresh(req[r]) /\ (req'[r].nCache > req[r].nCache \/ req'[r].nStore > req[r].nStore)) =>
            /\ ~req[r].cancelled
            /\ tabOpen[req[r].tabId]
            /\ tabUrl[req[r].tabId] = req[r].url
            /\ req[r].cacheKey \in DOMAIN DETECTION_CACHE'
            /\ DETECTION_CACHE'[req[r].cacheKey] = req[r].result
       /\ (/\ req[r].pc \in {"analyzing", "tabsGet"}
           /\ req'[r].pc = "done"
           /\ (req[r].cancelled \/ ~tabOpen[req[r].tabId] \/ tabUrl[req[r].tabId] # req[r].url)) =>
            /\ DETECTION_CACHE' = DETECTION_CACHE
            /\ detection' = detection
            /\ SameEffects(req[r], req'[r])]_vars

C7_Witness ==
  \E a \in Reqs, b \in Reqs :
    /\ req[a].nCache = 1
    /\ Fresh(req[b]) /\ req[b].pc = "done" /\ ~req[b].cancelled /\ req[b].nCache = 0
    /\ tabOpen[req[b].tabId]

\* C8: every cache entry sits under the key of the mode its analysis was
\* dispatched in, and a cache hit answers with a result dispatched in the mode
\* that is active at the hit.
C8_ModeIsolation ==
  [][/\ \A k \in DOMAIN DETECTION_CACHE' :
          \E m \in Modes : endsWith(k, COLON \o ModeString(m)) /\ DETECTION_CACHE'[k].dispatched = m
     /\ \A r \in Reqs : (req[r].pc # "done" /\ IsCacheHit(req'[r])) =>
          req'[r].responses[1].dispatched = activeMode]_vars

C8_Witness ==
  \E r \in Reqs, k \in DOMAIN DETECTION_CACHE :
    /\ Fresh(req[r])
    /\ req[r].dmode = activeMode
    /\ DETECTION_CACHE[k].dispatched # activeMode
    /\ \E m \in Modes : k = getCacheKeyIn(m, req[r].url, req[r].content, req[r].tabId)

\* C9: in the step in which a switchMode call resolves, the cache is empty.
C9_CacheEmptyPostSwitch ==
  [][\A s \in 1..MaxEvents : (sw[s].pc # "done" /\ sw'[s].pc = "done") =>
       DOMAIN DETECTION_CACHE' = {}]_vars

\* C10: two requests get the same key exactly when they agree on tabId, url,
\* the first PREFIX_LEN characters of content and the active mode.
C10_KeyInjective ==
  kd.stage = 3 =>
    ((kd.key1 = kd.key2) <=>
       /\ kd.tab1 = kd.tab2
       /\ kd.url1 = kd.url2
       /\ substring(kd.content1, 0, PREFIX_LEN) = substring(kd.content2, 0, PREFIX_LEN)
       /\ kd.mode1 = kd.mode2)

\* C11: every setMode request is acknowledged: its switchMode call resolves
\* whatever the initializer of the mode does (return ready, return not ready,
\* throw), and the handler answers with a mode.
C11_SwitchResolves ==
  \A s \in 1..MaxEvents : (sw[s].pc = "set") ~> (sw[s].pc = "done" /\ sw[s].ack \in Modes)

C11_Witness ==
  \E s \in 1..MaxEvents : sw[s].outcome = "throw" /\ sw[s].pc = "done" /\ sw[s].ack \in Modes

\* C12: in the step in which an initialization (startup or mode switch, local
\* or cloud) ends in failure, isAiAvailable becomes false and
\* aiAvailabilityStatus holds a code of that failure: the code the initializer
\* reported, or, when it threw, a code other than 'readily' and 'initializing'.
C12_InitFailureRecorded ==
  [][\A s \in 0..MaxEvents :
       (sw[s].pc = "init" /\ sw'[s].pc = "done" /\ sw'[s].outcome # "readily") =>
         /\ isAiAvailable' = FALSE
         /\ IF sw'[s].outcome = "throw"
              THEN aiAvailabilityStatus' \notin {"readily", "initializing"}
              ELSE aiAvailabilityStatus' = sw'[s].outcome]_vars

\* The step in which the handler of request r calls analyzeContent.
Dispatches(r) == ~Fresh(req[r]) /\ Fresh(req'[r])

\* C13: a call of analyzeContent made while the backend is unavailable and the
\* status is not 'configure-required' returns an ERROR result with isMalicious
\* false and invokes no backend; a call made in cloud mode with status
\* 'configure-required' returns CONFIGURATION_ERROR and invokes no backend.
C13_FailFast ==
  [][\A r \in Reqs : Dispatches(r) =>
       /\ (~isAiAvailable /\ aiAvailabilityStatus # "configure-required") =>
            /\ req'[r].result.judgment = "ERROR"
            /\ req'[r].result.isMalicious = FALSE
            /\ req'[r].invoked = {}
            /\ req'[r].pc # "analyzing"
       /\ (activeMode = "cloud" /\ aiAvailabilityStatus = "configure-required") =>
            /\ req'[r].result.judgment = "CONFIGURATION_ERROR"
            /\ req'[r].invoked = {}
            /\ req'[r].pc # "analyzing"]_vars

C13_Witness ==
  \E a \in Reqs, b \in Reqs :
    /\ Fresh(req[a]) /\ req[a].pc = "tabsGet" /\ req[a].result.judgment = "ERROR"
    /\ Fresh(req[b]) /\ req[b].pc = "tabsGet" /\ req[b].result.judgment = "CONFIGURATION_ERROR"
    /\ ~isAiAvailable /\ aiAvailabilityStatus = "configure-required" /\ activeMode = "cloud"

\* C14: a call of analyzeContent invokes at most one backend, the cloud
\* backend only when activeMode is 'cloud' at the call and the local backend
\* only when it is not, and no backend is invoked for the call later on.
C14_ExclusiveDispatch ==
  [][\A r \in Reqs :
       /\ Dispatches(r) =>
            /\ Cardinality(req'[r].invoked) <= 1
            /\ ("cloud" \in req'[r].invoked) => activeMode = "cloud"
            /\ ("local" \in req'[r].invoked) => activeMode # "cloud"
            /\ (req'[r].pc = "analyzing") <=> (req'[r].invoked # {})
       /\ Fresh(req[r]) => req'[r].invoked \subseteq req[r].invoked]_vars

C14_Witness ==
  \E a \in Reqs, b \in Reqs :
    /\ req[a].pc = "analyzing" /\ req[a].invoked = {"cloud"}
    /\ req[b].pc = "analyzing" /\ req[b].invoked = {"local"}

\* C15: whenever analyzeContent hands currentSessions to a backend, the
\* sessions object is not null and was produced by the initializer of the
\* mode that is active at that moment.
C15_NoCrossModeSessions ==
  [][\A r \in Reqs : (Dispatches(r) /\ req'[r].invoked # {}) =>
       /\ currentSessions # NullSessions
       /\ currentSessions.mode = activeMode]_vars

\* C16: analyzeContent always hands a result to its caller, and when the
\* backend it called throws, that result is the ERROR result: isMalicious
\* false, judgment ERROR, method error, the mode, and the content length.
C16_NeverRejects ==
  [][\A r \in Reqs :
       /\ (req[r].pc # "tabsGet" /\ req'[r].pc = "tabsGet") => req'[r].result # NoResult
       /\ (req[r].pc = "analyzing" /\ ~req[r].cancelled /\ req'[r].settled = "throw") =>
            /\ req'[r].pc = "tabsGet"
            /\ req'[r].result.isMalicious = FALSE
            /\ req'[r].result.judgment = "ERROR"
            /\ req'[r].result.method = "error"
            /\ req'[r].result.mode = activeMode
            /\ req'[r].result.contentLength = Len(req[r].content)]_vars

C16_Witness ==
  \E r \in Reqs : req[r].pc = "tabsGet" /\ req[r].settled = "throw" /\ req[r].invoked # {}

\* Some url-type rule of the list read equals the URL exactly.
HasExactUrlRule(url, rules) ==
  \E i \in DOMAIN rules : rules[i].type = "url" /\ rules[i].pattern = url

\* The evaluation of shouldIgnoreUrl(url) fails: the storage read rejects, or
\* the loop reaches a domain rule and new URL(url) throws.
ReadFailure(url, got) == ~isExtensionPage(url) /\ ~got.ok

ParseFailure(url, got) ==
  /\ ~isExtensionPage(url)
  /\ got.ok
  /\ ~canParse(url)
  /\ \E i \in DOMAIN got.ignoreRules :
       /\ got.ignoreRules[i].type = "domain"
       /\ \A j \in 1..(i - 1) :
            ~(got.ignoreRules[j].type = "url" /\ got.ignoreRules[j].pattern = url)

\* C17: when the rule list read holds a url-type rule equal to the URL,
\* shouldIgnoreUrl answers true, whatever domain-type rules the list holds
\* and in whatever order.
C17_ExactUrlRuleWins ==
  (ip.stage = 1 /\ ip.got.ok /\ HasExactUrlRule(ip.url, ip.got.ignoreRules)) => ip.ignored

\* C18: an evaluation of shouldIgnoreUrl in which the storage read rejects or
\* new URL(url) throws for a domain rule answers false.
C18_FailOpen ==
  (ip.stage = 1 /\ (ReadFailure(ip.url, ip.got) \/ ParseFailure(ip.url, ip.got))) => ~ip.ignored

C18_Witness ==
  /\ ip.stage = 1
  /\ ParseFailure(ip.url, ip.got)
  /\ Len(ip.got.ignoreRules) = 2
  /\ ~ip.ignored

\* The handler of request r leaves the cache, the registry and every tracker
\* as they are, calls no backend, and answers once, with judgment j.
ShortCircuit(r, j) ==
  /\ req'[r].pc = "done"
  /\ Len(req'[r].responses) = 1
  /\ req'[r].responses[1].judgment = j
  /\ req'[r].responses[1].isMalicious = FALSE
  /\ DETECTION_CACHE' = DETECTION_CACHE
  /\ ACTIVE_ANALYSES' = ACTIVE_ANALYSES
  /\ \A a \in Reqs \ {r} : req'[a] = req[a]
  /\ req'[r].invoked = {}
  /\ ~Fresh(req'[r])

\* C19: a request with the skipped flag is answered SKIPPED in the task of its
\* arrival, without reading the ignore rules, without touching the cache or
\* the registry and without a backend call, and does nothing afterwards.
C19_SkipShortCircuit ==
  [][\A r \in Reqs :
       /\ (req[r].pc = "none" /\ req'[r].pc # "none" /\ req'[r].skipped) =>
            (ShortCircuit(r, "SKIPPED") /\ req'[r].path = "skipped")
       /\ (req[r].skipped /\ req[r].pc = "done") => req'[r] = req[r]]_vars

C19_Witness ==
  \E a \in Reqs, b \in ACTIVE_ANALYSES :
    /\ req[3].skipped /\ req[3].pc = "done" /\ req[3].tabId = req[b].tabId
    /\ req[a].nCache = 1
    /\ req[b].timerArmed /\ ~req[b].cancelled
    /\ DOMAIN DETECTION_CACHE # {}

\* C20: a request without the skipped flag whose URL the matcher reports as
\* ignored (an extension page, or a match in the rules read) is answered
\* IGNORED without touching the cache or the registry and without a backend
\* call.
C20_IgnoreShortCircuit ==
  [][\A r \in Reqs :
       (/\ ~req'[r].skipped
        /\ \/ req[r].pc = "none" /\ req'[r].pc # "none" /\ isExtensionPage(tabUrl[req'[r].tabId])
           \/ req[r].pc = "ignore" /\ req'[r].pc # "ignore" /\ shouldIgnoreUrl(req[r].url, ignoreRules)) =>
         (ShortCircuit(r, "IGNORED") /\ req'[r].path = "ignored")]_vars

C20_Witness ==
  \E r \in Reqs, b \in ACTIVE_ANALYSES :
    /\ req[r].path = "ignored" /\ req[r].pc = "done" /\ r > b
    /\ req[b].tabId = req[r].tabId /\ req[b].timerArmed /\ ~req[b].cancelled

\* The key a request waiting for the ignore rules is looked up under.
LookupKey(q) == getCacheKey(q.url, q.content, q.tabId)

\* C21: a request that is neither skipped nor ignored and whose key is in the
\* cache is answered with exactly the cached result, calls no backend,
\* registers no tracker and leaves cache, registry and trackers as they are;
\* and when an analysis commits while the mode it was dispatched in is still
\* the active one, the key an identical request is looked up under maps to
\* the committed result.
C21_CacheHit ==
  [][\A r \in Reqs :
       /\ (req'[r].nCache > req[r].nCache /\ req[r].dmode = activeMode) =>
            /\ LookupKey(req[r]) \in DOMAIN DETECTION_CACHE'
            /\ DETECTION_CACHE'[LookupKey(req[r])] = req[r].result
       /\ (/\ req[r].pc = "ignore" /\ req'[r].pc # "ignore"
           /\ ~shouldIgnoreUrl(req[r].url, ignoreRules)
           /\ LookupKey(req[r]) \in DOMAIN DETECTION_CACHE) =>
            /\ IsCacheHit(req'[r])
            /\ req'[r].pc = "done"
            /\ req'[r].responses = <<DETECTION_CACHE[LookupKey(req[r])]>>
            /\ req'[r].invoked = {}
            /\ DETECTION_CACHE' = DETECTION_CACHE
            /\ ACTIVE_ANALYSES' = ACTIVE_ANALYSES
            /\ \A a \in Reqs \ {r} : req'[a] = req[a]]_vars

C21_Witness ==
  \E a \in Reqs, b \in Reqs, c \in ACTIVE_ANALYSES :
    /\ a < b /\ c < b
    /\ Fresh(req[a]) /\ req[a].nCache = 1
    /\ IsCacheHit(req[b]) /\ req[b].responses = req[a].responses
    /\ req[b].responses[1].method = "ai"
    /\ req[c].timerArmed /\ ~req[c].cancelled

\* C22: when the chrome.tabs.get callback of a fresh analysis whose watchdog
\* has not fired finds the tab open on the request's URL, the request is
\* answered with exactly the result analyzeContent returned and the cache maps
\* the key of (tabId, url, content prefix, dispatch mode) to that result.
C22_SuccessfulCommit ==
  [][\A r \in Reqs :
       /\ (req[r].pc = "analyzing" /\ req'[r].pc = "tabsGet" /\ req'[r].settled \in {"SAFE", "THREAT"}) =>
            /\ req'[r].result.judgment = req'[r].settled
            /\ req'[r].result.isMalicious = (req'[r].settled = "THREAT")
       /\ (/\ req[r].pc = "tabsGet" /\ req'[r].pc # "tabsGet"
           /\ ~req[r].timedOut
           /\ tabOpen[req[r].tabId] /\ tabUrl[req[r].tabId] = req[r].url) =>
            /\ req'[r].responses = <<req[r].result>>
            /\ LET key == getCacheKeyIn(req[r].dmode, req[r].url, req[r].content, req[r].tabId) IN
                 /\ key \in DOMAIN DETECTION_CACHE'
                 /\ DETECTION_CACHE'[key] = req[r].result]_vars

C22_Witness ==
  \E r \in Reqs :
    /\ Fresh(req[r]) /\ req[r].pc = "done" /\ ~req[r].timedOut /\ req[r].nCache = 1
    /\ Len(req[r].responses) = 1 /\ req[r].responses[1].judgment = "THREAT"
    /\ \E k \in DOMAIN DETECTION_CACHE : DETECTION_CACHE[k] = req[r].responses[1]

\* C23: a request for http://a/ with content 'y', which was cached before
\* the switch, that arrives after the only setMode(m) so far has been
\* acknowledged with the backend of m ready, misses the cache and calls the
\* backend of m.
C23_MissAfterSwitch ==
  [][\A r \in Reqs :
       (/\ req[r].pc = "ignore" /\ req'[r].pc # "ignore"
        /\ req[r].url = URL_A /\ req[r].content = CONTENT_Y
        /\ ~shouldIgnoreUrl(req[r].url, ignoreRules)
        /\ nextSw = 2 /\ sw[1].pc = "done" /\ sw[1].outcome = "readily"
        /\ req[r].acks = 1) =>
         /\ Fresh(req'[r])
         /\ req'[r].invoked = {sw[1].newMode}]_vars

\* C24: the cache never holds more than CACHE_LIMIT entries.
C24_CacheBound == Cardinality(DOMAIN DETECTION_CACHE) <= CACHE_LIMIT

\* Key k was built by getCacheKey for a request of tab t.
BelongsToTab(k, t) ==
  \E m \in Modes, u \in Urls, c \in Contents : k = getCacheKeyIn(m, u, c, t)

\* Nothing of a tab other than t changes: trackers, registry entries, stored
\* results, cache entries.
OtherTabsUnchanged(t) ==
  /\ \A a \in Reqs : req[a].tabId # t => req'[a] = req[a]
  /\ \A a \in ACTIVE_ANALYSES : req[a].tabId # t => a \in ACTIVE_ANALYSES'
  /\ \A u \in Tabs \ {t} : detection'[u] = detection[u]
  /\ \A k \in DOMAIN DETECTION_CACHE : ~BelongsToTab(k, t) =>
       (k \in DOMAIN DETECTION_CACHE' /\ DETECTION_CACHE'[k] = DETECTION_CACHE[k])
  /\ DOMAIN DETECTION_CACHE' \subseteq DOMAIN DETECTION_CACHE

\* After the step the registry holds no tracker of t, and the tracker it held
\* is cancelled with its watchdog disarmed.
TrackerCancelled(t) ==
  /\ \A a \in ACTIVE_ANALYSES' : req'[a].tabId # t
  /\ \A a \in ACTIVE_ANALYSES : req[a].tabId = t => (req'[a].cancelled /\ ~req'[a].timerArmed)

\* C25: the step in which tab t is closed leaves no tracker of t in the
\* registry (the one it held is cancelled, watchdog disarmed), removes the
\* stored result of t and every cache entry of t, and changes nothing of
\* another tab.
C25_TabClosed ==
  [][\A t \in Tabs : (tabOpen[t] /\ ~tabOpen'[t]) =>
       /\ TrackerCancelled(t)
       /\ detection'[t] = NoDetection
       /\ \A k \in DOMAIN DETECTION_CACHE' : ~BelongsToTab(k, t)
       /\ OtherTabsUnchanged(t)]_vars

C25_Witness ==
  \E a \in Reqs, b \in ACTIVE_ANALYSES :
    /\ ~tabOpen[1] /\ tabOpen[10]
    /\ req[a].tabId = 1 /\ req[a].cancelledBy = "close"
    /\ req[b].tabId = 10 /\ req[b].timerArmed
    /\ WarmKey(10) \in DOMAIN DETECTION_CACHE /\ WarmKey(1) \notin DOMAIN DETECTION_CACHE
    /\ detection[10].present /\ ~detection[1].present

\* The step is a load-start signal: the only step that counts as an event
\* and neither creates a request or a switch, nor closes a tab, nor answers
\* a clearTabCache message.
LoadStart(t) ==
  /\ events' = events + 1
  /\ nextReq' = nextReq /\ nextSw' = nextSw
  /\ tabOpen' = tabOpen /\ clearResp' = clearResp
  /\ tabOpen[t] /\ \A u \in Tabs \ {t} : ~tabOpen[u]

\* C26: every load-start signal for tab t cancels the running tracker of t,
\* removes it from the registry, clears the stored result of t and leaves
\* the cache unchanged.
C26_NavigationStarted ==
  [][\A t \in Tabs : LoadStart(t) =>
       /\ TrackerCancelled(t)
       /\ detection'[t] = NoDetection
       /\ DETECTION_CACHE' = DETECTION_CACHE]_vars

\* The step is the tab-closed signal of tab t.
Closed(t) == tabOpen[t] /\ ~tabOpen'[t]

\* C27: a cancellation signal for tab t (load-start or close), with or
\* without a tracker of t in the registry and whether or not it was already
\* cancelled, runs to its end, leaves no entry for t in the registry and
\* leaves every cancelled tracker cancelled; so a second signal in a row
\* finds nothing to cancel and changes nothing of that.
C27_CancelIdempotent ==
  [][\A t \in Tabs : (LoadStart(t) \/ Closed(t)) =>
       /\ \A a \in ACTIVE_ANALYSES' : req'[a].tabId # t
       /\ \A a \in Reqs : req[a].cancelled => req'[a].cancelled
       /\ Closed(t) => detection'[t] = NoDetection]_vars

\* The step answers a clearTabCache message for tab t.
Cleared(t) == clearResp'.n = clearResp.n + 1 /\ clearResp'.tabId = t

\* C28: ClearTabCache(t) removes exactly the cache entries of tab t, answers
\* with the number of entries it removed, and leaves the entries of every
\* other tab, the registry, the trackers and the stored results unchanged.
C28_ClearTabCache ==
  [][\A t \in Tabs : Cleared(t) =>
       /\ DOMAIN DETECTION_CACHE' = {k \in DOMAIN DETECTION_CACHE : ~BelongsToTab(k, t)}
       /\ \A k \in DOMAIN DETECTION_CACHE' : DETECTION_CACHE'[k] = DETECTION_CACHE[k]
       /\ clearResp'.success
       /\ clearResp'.clearedCount = Cardinality(DOMAIN DETECTION_CACHE) - Cardinality(DOMAIN DETECTION_CACHE')
       /\ UNCHANGED <<ACTIVE_ANALYSES, req, detection>>]_vars

C28_Witness ==
  /\ clearResp.n > 0 /\ clearResp.tabId = 1 /\ clearResp.clearedCount = 2
  /\ WarmKey(1) \notin DOMAIN DETECTION_CACHE
  /\ WarmKey(10) \in DOMAIN DETECTION_CACHE
  /\ detection[1].present /\ detection[10].present

\* The step in which the handler of request b takes its branch (skipped,
\* ignored, cache hit or fresh analysis).
Handled(b) == req[b].path = "none" /\ req'[b].path # "none"

\* C29: when a newer request of tab t has been handled, the tracker that was
\* running for t is cancelled.
C29_NewerRequestCancels ==
  [][\A b \in Reqs : Handled(b) =>
       \A a \in ACTIVE_ANALYSES : (a # b /\ req[a].tabId = req'[b].tabId) => req'[a].cancelled]_vars

\* The analysis of request r has settled: its completion handler has run,
\* its watchdog has fired, or it was cancelled.
HasSettled(r) ==
  /\ req[r].path = "fresh"
  /\ (req[r].cancelled \/ req[r].timedOut \/ req[r].pc \in {"tabsGet", "done"})

\* C30: a settled analysis has its watchdog disarmed and is not in the
\* registry; when no analyzer call is outstanding the registry is empty and
\* no watchdog is armed.
C30_NoLeak ==
  /\ \A r \in Reqs : HasSettled(r) => (~req[r].timerArmed /\ r \notin ACTIVE_ANALYSES)
  /\ (\A r \in Reqs : req[r].pc # "analyzing") =>
       (ACTIVE_ANALYSES = {} /\ \A r \in Reqs : ~req[r].timerArmed)

C30_Witness ==
  \E a \in Reqs, b \in Reqs :
    /\ req[a].timedOut /\ req[a].pc = "done"
    /\ req[b].cancelledBy \in {"navigation", "close"} /\ req[b].pc = "done"
    /\ \A r \in Reqs : req[r].pc # "analyzing"

\* No setMode message is on its way and no switchMode / initializeAI
\* activation is outstanding.
Quiescent == \A s \in 0..MaxEvents : sw[s].pc \in {"none", "done"}

\* The persisted preference as initializeAI reads it.
Preference == IF storedMode = "none" THEN "cloud" ELSE storedMode

\* C31: when no switch is outstanding the active mode equals the persisted
\* preference, and the acknowledgement of a setMode message reports the mode
\* that its own switch resolved.
C31_ModeAgreement ==
  /\ Quiescent => activeMode = Preference
  /\ \A s \in 1..MaxEvents : sw[s].pc = "done" => sw[s].ack = sw[s].initMode

\* Non-skipped analyzeContent requests of the content script that await
\* their response.
Outstanding == {c \in 1..MaxCalls : cs.calls[c] = "await"}

\* C32: at most one non-skipped request of the content script is outstanding,
\* and analysisInProgress is true exactly while one is.
C32_SingleAnalysis ==
  /\ Cardinality(Outstanding) <= 1
  /\ cs.analysisInProgress <=> (Outstanding # {})

IsPrefix(l1, l2) == Len(l1) <= Len(l2) /\ \A i \in 1..Len(l1) : l2[i] = l1[i]

RuleOf(q) == [pattern |-> q.pattern, type |-> q.type]

\* C33: with addIgnoreRule calls one after the other, the stored list never
\* holds a rule twice, an add keeps the stored rules and their order, appends
\* at most the one rule and only when that rule was not in the list, and the
\* rule of a finished add is in the list.
C33_AddNoDuplicate ==
  [][/\ NoDuplicates(ignoreRules')
     /\ IsPrefix(ignoreRules, ignoreRules')
     /\ Len(ignoreRules') <= Len(ignoreRules) + 1
     /\ \A o \in 1..MaxOps :
          (rw.ops[o].pc = "set" /\ rw'.ops[o].pc = "done") =>
            /\ ignoreRules' = Append(ignoreRules, RuleOf(rw.ops[o]))
            /\ ~RuleExists(ignoreRules, rw.ops[o].pattern, rw.ops[o].type)
     /\ \A o \in 1..MaxOps :
          (rw.ops[o].pc = "get" /\ rw'.ops[o].pc = "done") =>
            (RuleExists(ignoreRules, rw.ops[o].pattern, rw.ops[o].type) /\ ignoreRules' = ignoreRules)
     /\ \A o \in 1..MaxOps :
          rw'.ops[o].pc = "done" => RuleExists(ignoreRules', rw'.ops[o].pattern, rw'.ops[o].type)]_vars

C33_Witness ==
  \E a \in 1..MaxOps, b \in 1..MaxOps :
    /\ rw.ops[a].pc = "done" /\ rw.ops[b].pc = "done" /\ a < b
    /\ RuleOf(rw.ops[a]) = RuleOf(rw.ops[b])
    /\ ~RuleExists(rw.base, rw.ops[a].pattern, rw.ops[a].type)
    /\ Len(rw.base) > 0
    /\ ignoreRules = Append(rw.base, RuleOf(rw.ops[a]))

\* addIgnoreRule applied to a list as one step.
AddTo(list, rule) == IF RuleExists(list, rule.pattern, rule.type) THEN list ELSE Append(list, rule)

\* C39: when one addIgnoreRule and one removeIgnoreRule that ran at the same
\* time have both finished, the stored list is what the two calls give when
\* run one after the other, in one of the two orders.
C39_NoLostUpdate ==
  \A a \in 1..MaxOps, b \in 1..MaxOps :
    (/\ rw.ops[a].kind = "add" /\ rw.ops[a].pc = "done"
     /\ rw.ops[b].kind = "remove" /\ rw.ops[b].pc = "done"
     /\ \A o \in 1..MaxOps \ {a, b} : rw.ops[o].pc = "none")
    => ignoreRules \in {Splice(AddTo(rw.base, RuleOf(rw.ops[a])), rw.ops[b].index),
                        AddTo(Splice(rw.base, rw.ops[b].index), RuleOf(rw.ops[a]))}

\* C34: every tracker in the registry is not cancelled and has its watchdog
\* armed (so the watchdog has not fired).
C34_RegistryConsistent ==
  \A r \in ACTIVE_ANALYSES :
    /\ req[r].path = "fresh"
    /\ ~req[r].cancelled
    /\ req[r].timerArmed
    /\ ~req[r].timedOut

C34_Witness ==
  \E a \in Reqs, b \in Reqs, c \in ACTIVE_ANALYSES :
    /\ req[a].timedOut
    /\ req[b].cancelled
    /\ req[c].tabId = req[a].tabId /\ req[c].tabId = req[b].tabId

\* C35: a tracker leaves the registry only when its own analysis completes,
\* times out or is cancelled.
C35_RegistryOwnership ==
  [][\A b \in ACTIVE_ANALYSES : b \notin ACTIVE_ANALYSES' =>
       \/ req'[b].cancelled
       \/ req'[b].timedOut
       \/ (req[b].pc = "analyzing" /\ req'[b].pc # "analyzing")]_vars

\* The result is an error result of analyzeContent.
IsErrorResult(res) == res.judgment \in {"ERROR", "CONFIGURATION_ERROR"}

\* The step removes cache entry k by a mode switch, by closing or clearing
\* its tab, or by clearing the whole cache.
Invalidated(k) ==
  \/ nextSw' # nextSw
  \/ \E t \in Tabs : BelongsToTab(k, t) /\ (Closed(t) \/ Cleared(t))
  \/ DETECTION_CACHE' = CacheClear

C37_StoredForCurrentUrl ==
  [][\A r \in Reqs : req'[r].nStore > req[r].nStore =>
       LET t == req'[r].tabId IN
       /\ detection'[t].url = tabUrl'[t]
       /\ req[r].pc # "none" => req[r].url = tabUrl'[t]]_vars

\* C38: a fresh analysis whose tab started a load after the analysis was
\* started and before its result was committed never writes a cache entry, a
\* stored result or a badge.
C38_NavigationBeforeCommit ==
  \A r \in Reqs : req[r].navStarted =>
    (req[r].nCache = 0 /\ req[r].nStore = 0 /\ req[r].nBadge = 0)

====
